---- MODULE Spec2Model ----
(***************************************************************************)
(* A model of src/board.py: the bitboard Board, its FEN parser             *)
(* (Board.__init__), its FEN serializer (Board.to_fen), Board.place and    *)
(* the UCI renderer Move.__str__.                                          *)
(*                                                                         *)
(* Text is a sequence of one-character strings.  A Bitboard (an IntFlag    *)
(* over 1 << 0 .. 1 << 63) is the set of the squares whose bit is set, so  *)
(* that | is \cup and & is \cap.  CastlingAbility and MoveFlag stay        *)
(* integers, with the bitwise operators computed bit by bit.               *)
(***************************************************************************)
EXTENDS Integers, Sequences, FiniteSets, TLC

\* ------------------------------------------------------------------ bounds
MaxPlacementLen == 4
MaxCastlingLen == 3
MaxClockLen == 2
MaxTextLen == 13
MaxPlaceCalls == 3
NumPlaceSquares == 3

\* ------------------------------------------------------- integer helpers
RECURSIVE BitOr(_, _)
\* a | b on non-negative integers
BitOr(a, b) ==
    IF a = 0 THEN b
    ELSE IF b = 0 THEN a
    ELSE (IF (a % 2 = 1) \/ (b % 2 = 1) THEN 1 ELSE 0) + 2 * BitOr(a \div 2, b \div 2)

\* flag in value, for a one-bit flag of an IntFlag
HasFlag(value, flag) == (value \div flag) % 2 = 1

\* ------------------------------------------------------------ enumerations
NumSquares == 64
Squares == 0 .. (NumSquares - 1)
FileNames == <<"a", "b", "c", "d", "e", "f", "g", "h">>
RankNames == <<"8", "7", "6", "5", "4", "3", "2", "1">>
PieceNames == <<"P", "N", "B", "R", "Q", "K", "p", "n", "b", "r", "q", "k">>
ColorNames == <<"w", "b">>
CastlingNames == <<"K", "Q", "k", "q">>
Pieces == 0 .. 11
PieceTypes == 0 .. 5
Colors == 0 .. 1
Digits == <<"0", "1", "2", "3", "4", "5", "6", "7", "8", "9">>

\* Index of x in the tuple t, counted from 0; -1 when x is no element of it
IndexOf(t, x) ==
    IF \E i \in 1 .. Len(t) : t[i] = x
    THEN (CHOOSE i \in 1 .. Len(t) : t[i] = x) - 1
    ELSE -1

\* Square(i).name
square_name(sq) == <<FileNames[(sq % 8) + 1], RankNames[(sq \div 8) + 1]>>

\* Names that getattr finds on every enum class although they name no member:
\* "mro" is a method (truthy), "__doc__" is None (falsy).
Txt_mro == <<"m", "r", "o">>
Txt_doc == <<"_", "_", "d", "o", "c", "_", "_">>
NonMemberAttrs == {Txt_mro, Txt_doc}
AttrTruthy(name) == name = Txt_mro

\* square_from with its arguments taken in the wrong order
square_from_swapped(file, rank) == BitOr(file * 8, rank)
\* rank << 3 | file, before the Square(...) constructor validates it
square_from(file, rank) == BitOr(rank * 8, file)

\* Square(v) raises ValueError unless v is one of the 64 members
IsSquare(v) == v \in Squares

file_of(square) == square % 8
rank_of(square) == square \div 8
piece_from(piece_type, color) == color * 6 + piece_type
piece_type_of(piece) == piece % 6
color_of(piece) == piece \div 6
bitboard_from(square) == {square}

\* ---------------------------------------------------------- text helpers
IsDigit(ch) == IndexOf(Digits, ch) >= 0
DigitValue(ch) == IndexOf(Digits, ch)

RECURSIVE split_ws(_, _, _)
\* str.split(): the maximal runs of non-blank characters
split_ws(s, cur, acc) ==
    IF s = <<>> THEN (IF cur = <<>> THEN acc ELSE Append(acc, cur))
    ELSE IF Head(s) = " "
         THEN split_ws(Tail(s), <<>>, IF cur = <<>> THEN acc ELSE Append(acc, cur))
         ELSE split_ws(Tail(s), Append(cur, Head(s)), acc)

StrSplit(s) == split_ws(s, <<>>, <<>>)

RECURSIVE split_on(_, _, _, _)
\* str.split(sep): the pieces between separators, empty pieces kept
split_on(s, sep, cur, acc) ==
    IF s = <<>> THEN Append(acc, cur)
    ELSE IF Head(s) = sep
         THEN split_on(Tail(s), sep, <<>>, Append(acc, cur))
         ELSE split_on(Tail(s), sep, Append(cur, Head(s)), acc)

StrSplitOn(s, sep) == split_on(s, sep, <<>>, <<>>)

RECURSIVE StrJoin(_, _)
\* sep.join(parts)
StrJoin(parts, sep) ==
    IF parts = <<>> THEN <<>>
    ELSE IF Len(parts) = 1 THEN parts[1]
    ELSE parts[1] \o <<sep>> \o StrJoin(Tail(parts), sep)

RECURSIVE NatToStr(_)
NatToStr(n) ==
    IF n < 10 THEN <<Digits[n + 1]>>
    ELSE NatToStr(n \div 10) \o <<Digits[(n % 10) + 1]>>

\* str(n) of an int
IntToStr(n) == IF n < 0 THEN <<"-">> \o NatToStr(0 - n) ELSE NatToStr(n)

\* int(s) accepts an optional sign, then digits with single underscores
\* strictly between digits
IntBody(s) == IF s # <<>> /\ Head(s) \in {"+", "-"} THEN Tail(s) ELSE s

IntValid(s) ==
    LET b == IntBody(s) IN
    /\ b # <<>>
    /\ \A i \in 1 .. Len(b) : IsDigit(b[i]) \/ b[i] = "_"
    /\ IsDigit(b[1]) /\ IsDigit(b[Len(b)])
    /\ \A i \in 1 .. (Len(b) - 1) : ~(b[i] = "_" /\ b[i + 1] = "_")

RECURSIVE DigitsValue(_, _)
DigitsValue(b, acc) ==
    IF b = <<>> THEN acc
    ELSE IF Head(b) = "_" THEN DigitsValue(Tail(b), acc)
    ELSE DigitsValue(Tail(b), acc * 10 + DigitValue(Head(b)))

\* int(s), for IntValid(s)
IntParse(s) ==
    IF Head(s) = "-" THEN 0 - DigitsValue(IntBody(s), 0) ELSE DigitsValue(IntBody(s), 0)

\* ------------------------------------------------------------ Board state
VARIABLES
    fen,                       \* the argument of Board(fen)
    round,                     \* 1: Board(fen); 2: Board(Board(fen).to_fen())
    pc,                        \* the statement of Board.__init__ / to_fen reached
    error,                     \* the exception raised at pc, or "none"
    fields,                    \* the six locals unpacked from fen.split()
    ranks,                     \* piece_placement.split('/')
    rank, pos, file,           \* the loop variables of the placement scan
    met,                       \* history: <<piece, file, rank>> of every letter scanned
    attrs,                     \* the attributes assigned on self so far
    piece_type_bitboards, color_bitboards,
    side_to_move, castling_ability, en_passant_target_square,
    halfmove_clock, fullmove_counter,
    out,                       \* the text to_fen returned
    calls, last,               \* Board.place called from outside: count and last call
    move, uci                  \* a Move and the text str(move) returned

vars == <<fen, round, pc, error, fields, ranks, rank, pos, file, met, attrs,
          piece_type_bitboards, color_bitboards, side_to_move, castling_ability,
          en_passant_target_square, halfmove_clock, fullmove_counter, out,
          calls, last, move, uci>>

boardVars == <<piece_type_bitboards, color_bitboards, side_to_move, castling_ability,
               en_passant_target_square, halfmove_clock, fullmove_counter>>
scanVars == <<ranks, rank, pos, file, met>>
otherVars == <<calls, last, move, uci>>

EmptyBitboards(S) == [i \in S |-> {}]
NoBitboard == [bits |-> {}, attr |-> <<>>]
NoMove == [from_square |-> 0, to_square |-> 0, flag |-> 0]
NoCall == [piece |-> 0, square |-> 0, vacant |-> FALSE]

\* ------------------------------------------------------------- Board.place
\* place with = in place of |=
place_type_mut(ptb, piece, square) ==
    [ptb EXCEPT ![piece_type_of(piece)] = bitboard_from(square)]
\* self.piece_type_bitboards[piece_type_of(piece)] |= square_bitboard
place_type(ptb, piece, square) ==
    [ptb EXCEPT ![piece_type_of(piece)] = @ \cup bitboard_from(square)]

\* place that always writes the white bitboard
place_color_mut(cb, piece, square) == [cb EXCEPT ![0] = @ \cup bitboard_from(square)]
\* self.color_bitboards[color_of(piece)] |= square_bitboard
place_color(cb, piece, square) ==
    [cb EXCEPT ![color_of(piece)] = @ \cup bitboard_from(square)]

\* piece_bitboard without the colour mask
piece_bitboard_mut(cb, ptb, piece) == ptb[piece_type_of(piece)]
\* Board.piece_bitboard
piece_bitboard(cb, ptb, piece) == cb[color_of(piece)] \cap ptb[piece_type_of(piece)]

\* ---------------------------------------------------------- Board.__init__
\* a field count check that lets extra fields through
FieldCountOk_mut(toks) == Len(toks) >= 6
\* the six-name tuple assignment succeeds only on exactly six fields
FieldCountOk(toks) == Len(toks) = 6

\* fen.split() does not yield six fields: ValueError('Invalid FEN: ...')
SplitFails ==
    /\ pc = "call" /\ error = "none"
    /\ ~FieldCountOk(StrSplit(fen))
    /\ error' = "InvalidFEN"
    /\ UNCHANGED <<fen, round, pc, fields, scanVars, attrs, boardVars, out, otherVars>>

SplitFields ==
    /\ pc = "call" /\ error = "none"
    /\ FieldCountOk(StrSplit(fen))
    /\ fields' = StrSplit(fen)
    /\ pc' = "bitboards"
    /\ UNCHANGED <<fen, round, error, scanVars, attrs, boardVars, out, otherVars>>

\* lines 135-136, and the evaluation of zip(Rank, piece_placement.split('/'))
InitBitboards ==
    /\ pc = "bitboards" /\ error = "none"
    /\ piece_type_bitboards' = EmptyBitboards(PieceTypes)
    /\ color_bitboards' = EmptyBitboards(Colors)
    /\ attrs' = attrs \cup {"piece_type_bitboards", "color_bitboards"}
    /\ ranks' = StrSplitOn(fields[1], "/")
    /\ rank' = 0
    /\ pc' = "rank"
    /\ UNCHANGED <<fen, round, error, fields, pos, file, met, side_to_move,
                   castling_ability, en_passant_target_square, halfmove_clock,
                   fullmove_counter, out, otherVars>>

\* zip stops at the shorter of Rank (8 members) and the rank strings
ZipLen(rs) == IF Len(rs) < 8 THEN Len(rs) ELSE 8

NextRank ==
    /\ pc = "rank" /\ error = "none"
    /\ rank < ZipLen(ranks)
    /\ file' = 0
    /\ pos' = 1
    /\ pc' = "char"
    /\ UNCHANGED <<fen, round, error, fields, ranks, rank, met, attrs, boardVars,
                   out, otherVars>>

PlacementDone ==
    /\ pc = "rank" /\ error = "none"
    /\ rank >= ZipLen(ranks)
    /\ pc' = "side"
    /\ UNCHANGED <<fen, round, error, fields, scanVars, attrs, boardVars, out, otherVars>>

CurrentRank == ranks[rank + 1]
CurrentChar == CurrentRank[pos]

RankDone ==
    /\ pc = "char" /\ error = "none"
    /\ pos > Len(CurrentRank)
    /\ rank' = rank + 1
    /\ pc' = "rank"
    /\ UNCHANGED <<fen, round, error, fields, ranks, pos, file, met, attrs, boardVars,
                   out, otherVars>>

\* if ch.isdigit(): file += int(ch)
ScanDigit ==
    /\ pc = "char" /\ error = "none"
    /\ pos <= Len(CurrentRank)
    /\ IsDigit(CurrentChar)
    /\ file' = file + DigitValue(CurrentChar)
    /\ pos' = pos + 1
    /\ UNCHANGED <<fen, round, pc, error, fields, ranks, rank, met, attrs, boardVars,
                   out, otherVars>>

\* getattr(Piece, ch): no one-character name but the twelve members exists
IsPieceName(ch) == IndexOf(PieceNames, ch) >= 0

\* self.place(getattr(Piece, ch), square_from(file, rank)); file += 1
ScanPiece ==
    /\ pc = "char" /\ error = "none"
    /\ pos <= Len(CurrentRank)
    /\ ~IsDigit(CurrentChar)
    /\ IsPieceName(CurrentChar)
    /\ IsSquare(square_from(file, rank))
    /\ LET piece == IndexOf(PieceNames, CurrentChar)
           square == square_from(file, rank)
       IN /\ piece_type_bitboards' = place_type(piece_type_bitboards, piece, square)
          /\ color_bitboards' = place_color(color_bitboards, piece, square)
          /\ met' = met \cup {<<piece, file, rank>>}
    /\ file' = file + 1
    /\ pos' = pos + 1
    /\ UNCHANGED <<fen, round, pc, error, fields, ranks, rank, attrs, side_to_move,
                   castling_ability, en_passant_target_square, halfmove_clock,
                   fullmove_counter, out, otherVars>>

\* getattr(Piece, ch) raises AttributeError
ScanUnknownPiece ==
    /\ pc = "char" /\ error = "none"
    /\ pos <= Len(CurrentRank)
    /\ ~IsDigit(CurrentChar)
    /\ ~IsPieceName(CurrentChar)
    /\ error' = "AttributeError"
    /\ UNCHANGED <<fen, round, pc, fields, scanVars, attrs, boardVars, out, otherVars>>

\* Square(rank << 3 | file) raises ValueError
ScanBadSquare ==
    /\ pc = "char" /\ error = "none"
    /\ pos <= Len(CurrentRank)
    /\ ~IsDigit(CurrentChar)
    /\ IsPieceName(CurrentChar)
    /\ ~IsSquare(square_from(file, rank))
    /\ error' = "ValueError"
    /\ UNCHANGED <<fen, round, pc, fields, scanVars, attrs, boardVars, out, otherVars>>

\* getattr(Color, side_to_move): a member, or any other attribute of the class
IsColorName(s) == s \in {<<ColorNames[1]>>, <<ColorNames[2]>>}
ColorLookupOk(s) == IsColorName(s) \/ s \in NonMemberAttrs

ParseSide ==
    /\ pc = "side" /\ error = "none"
    /\ ColorLookupOk(fields[2])
    /\ side_to_move' = fields[2]
    /\ attrs' = attrs \cup {"side_to_move"}
    /\ pc' = "castling"
    /\ UNCHANGED <<fen, round, error, fields, scanVars, piece_type_bitboards,
                   color_bitboards, castling_ability, en_passant_target_square,
                   halfmove_clock, fullmove_counter, out, otherVars>>

ParseSideFails ==
    /\ pc = "side" /\ error = "none"
    /\ ~ColorLookupOk(fields[2])
    /\ error' = "AttributeError"
    /\ UNCHANGED <<fen, round, pc, fields, scanVars, attrs, boardVars, out, otherVars>>

IsCastlingName(ch) == IndexOf(CastlingNames, ch) >= 0
\* CastlingAbility.K, Q, k, q = 1, 2, 4, 8
castling_flag(ch) == 2 ^ IndexOf(CastlingNames, ch)

RECURSIVE reduce_add(_, _)
\* reduce with add in place of or_
reduce_add(s, acc) ==
    IF s = <<>> THEN acc ELSE reduce_add(Tail(s), acc + castling_flag(Head(s)))

RECURSIVE reduce_or(_, _)
\* reduce(or_, map(partial(getattr, CastlingAbility), castling_ability))
reduce_or(s, acc) ==
    IF s = <<>> THEN acc ELSE reduce_or(Tail(s), BitOr(acc, castling_flag(Head(s))))

CastlingLookupOk(s) == s = <<"-">> \/ \A i \in 1 .. Len(s) : IsCastlingName(s[i])
parse_castling(s) == IF s = <<"-">> THEN 0 ELSE reduce_or(s, 0)

ParseCastling ==
    /\ pc = "castling" /\ error = "none"
    /\ CastlingLookupOk(fields[3])
    /\ castling_ability' = parse_castling(fields[3])
    /\ attrs' = attrs \cup {"castling_ability"}
    /\ pc' = "en_passant"
    /\ UNCHANGED <<fen, round, error, fields, scanVars, piece_type_bitboards,
                   color_bitboards, side_to_move, en_passant_target_square,
                   halfmove_clock, fullmove_counter, out, otherVars>>

ParseCastlingFails ==
    /\ pc = "castling" /\ error = "none"
    /\ ~CastlingLookupOk(fields[3])
    /\ error' = "AttributeError"
    /\ UNCHANGED <<fen, round, pc, fields, scanVars, attrs, boardVars, out, otherVars>>

IsSquareName(s) == \E sq \in Squares : square_name(sq) = s
SquareNamed(s) == CHOOSE sq \in Squares : square_name(sq) = s
BitboardLookupOk(s) == s = <<"-">> \/ IsSquareName(s) \/ s \in NonMemberAttrs

\* Bitboard(0) if the field is '-' else getattr(Bitboard, field)
parse_en_passant(s) ==
    IF s = <<"-">> THEN [bits |-> {}, attr |-> <<>>]
    ELSE IF IsSquareName(s) THEN [bits |-> bitboard_from(SquareNamed(s)), attr |-> <<>>]
    ELSE [bits |-> {}, attr |-> s]

ParseEnPassant ==
    /\ pc = "en_passant" /\ error = "none"
    /\ BitboardLookupOk(fields[4])
    /\ en_passant_target_square' = parse_en_passant(fields[4])
    /\ attrs' = attrs \cup {"en_passant_target_square"}
    /\ pc' = "halfmove"
    /\ UNCHANGED <<fen, round, error, fields, scanVars, piece_type_bitboards,
                   color_bitboards, side_to_move, castling_ability,
                   halfmove_clock, fullmove_counter, out, otherVars>>

ParseEnPassantFails ==
    /\ pc = "en_passant" /\ error = "none"
    /\ ~BitboardLookupOk(fields[4])
    /\ error' = "AttributeError"
    /\ UNCHANGED <<fen, round, pc, fields, scanVars, attrs, boardVars, out, otherVars>>

ParseHalfmove ==
    /\ pc = "halfmove" /\ error = "none"
    /\ IntValid(fields[5])
    /\ halfmove_clock' = IntParse(fields[5])
    /\ attrs' = attrs \cup {"halfmove_clock"}
    /\ pc' = "fullmove"
    /\ UNCHANGED <<fen, round, error, fields, scanVars, piece_type_bitboards,
                   color_bitboards, side_to_move, castling_ability,
                   en_passant_target_square, fullmove_counter, out, otherVars>>

ParseHalfmoveFails ==
    /\ pc = "halfmove" /\ error = "none"
    /\ ~IntValid(fields[5])
    /\ error' = "ValueError"
    /\ UNCHANGED <<fen, round, pc, fields, scanVars, attrs, boardVars, out, otherVars>>

\* the last statement: the constructor returns and the caller holds the Board
ParseFullmove ==
    /\ pc = "fullmove" /\ error = "none"
    /\ IntValid(fields[6])
    /\ fullmove_counter' = IntParse(fields[6])
    /\ attrs' = attrs \cup {"fullmove_counter"}
    /\ pc' = "done"
    /\ UNCHANGED <<fen, round, error, fields, scanVars, piece_type_bitboards,
                   color_bitboards, side_to_move, castling_ability,
                   en_passant_target_square, halfmove_clock, out, otherVars>>

ParseFullmoveFails ==
    /\ pc = "fullmove" /\ error = "none"
    /\ ~IntValid(fields[6])
    /\ error' = "ValueError"
    /\ UNCHANGED <<fen, round, pc, fields, scanVars, attrs, boardVars, out, otherVars>>

\* ------------------------------------------------------------ Board.to_fen
SetMax(S) == CHOOSE x \in S : \A y \in S : y <= x

\* Board._str_board: 64 cells; pieces are written in Piece order, so the
\* last piece whose bitboard holds the square is the one that shows
str_board(cb, ptb) ==
    [i \in 1 .. NumSquares |->
        LET ps == {p \in Pieces : (i - 1) \in piece_bitboard(cb, ptb, p)}
        IN IF ps = {} THEN " " ELSE PieceNames[SetMax(ps) + 1]]

AllBlank(s, from, n) == \A j \in from .. (from + n - 1) : s[j] = " "

RECURSIVE replace_blanks(_, _, _)
\* s.replace(' ' * n, str(n)), from index i on: leftmost matches, not overlapping
replace_blanks(s, n, i) ==
    IF i > Len(s) THEN <<>>
    ELSE IF i + n - 1 <= Len(s) /\ AllBlank(s, i, n)
         THEN <<Digits[n + 1]>> \o replace_blanks(s, n, i + n)
         ELSE <<s[i]>> \o replace_blanks(s, n, i + 1)

RECURSIVE convert_up(_, _)
\* the replacement loop run from 1 up to 8
convert_up(s, n) ==
    IF n > 8 THEN s ELSE convert_up(replace_blanks(s, n, 1), n + 1)

RECURSIVE convert_down(_, _)
convert_down(s, n) ==
    IF n = 0 THEN s ELSE convert_down(replace_blanks(s, n, 1), n - 1)

convert_spaces_to_digit_mut(s) == convert_up(s, 1)
\* to_fen._convert_spaces_to_digit: for n in range(8, 0, -1)
convert_spaces_to_digit(s) == convert_down(s, 8)

\* board[rank << 3:rank + 1 << 3]
rank_slice(board, r) == SubSeq(board, r * 8 + 1, (r + 1) * 8)

fen_placement(cb, ptb) ==
    LET board == str_board(cb, ptb)
    IN StrJoin([r \in 1 .. 8 |-> convert_spaces_to_digit(rank_slice(board, r - 1))], "/")

RECURSIVE concat(_)
concat(parts) == IF parts = <<>> THEN <<>> ELSE Head(parts) \o concat(Tail(parts))

FlagSet(ca, i) == HasFlag(ca, 2 ^ (i - 1))
\* the names of the set flags, lowest bit first, or '-'
fen_castling(ca) ==
    IF ca = 0 THEN <<"-">>
    ELSE concat([i \in 1 .. 4 |-> IF FlagSet(ca, i) THEN <<CastlingNames[i]>> ELSE <<>>])

\* truth value of self.en_passant_target_square
EpTruthy(ep) == ep.bits # {} \/ (ep.attr # <<>> /\ AttrTruthy(ep.attr))
fen_en_passant(ep) ==
    IF EpTruthy(ep) THEN square_name(CHOOSE sq \in ep.bits : TRUE) ELSE <<"-">>

\* .name exists on enum members only
ToFenOk(side, ep) == IsColorName(side) /\ (EpTruthy(ep) => ep.attr = <<>>)

to_fen(cb, ptb, side, ca, ep, half, full) ==
    StrJoin(<<fen_placement(cb, ptb), side, fen_castling(ca), fen_en_passant(ep),
              IntToStr(half), IntToStr(full)>>, " ")

ToFen ==
    /\ pc = "done" /\ error = "none"
    /\ ToFenOk(side_to_move, en_passant_target_square)
    /\ out' = to_fen(color_bitboards, piece_type_bitboards, side_to_move,
                     castling_ability, en_passant_target_square, halfmove_clock,
                     fullmove_counter)
    /\ pc' = "serialized"
    /\ UNCHANGED <<fen, round, error, fields, scanVars, attrs, boardVars, otherVars>>

\* .name of a non-member raises AttributeError
ToFenFails ==
    /\ pc = "done" /\ error = "none"
    /\ ~ToFenOk(side_to_move, en_passant_target_square)
    /\ error' = "AttributeError"
    /\ UNCHANGED <<fen, round, pc, fields, scanVars, attrs, boardVars, out, otherVars>>

\* Board(board.to_fen()): a new object is constructed from the text just produced
Reparse ==
    /\ pc = "serialized" /\ error = "none" /\ round = 1
    /\ fen' = out
    /\ round' = 2
    /\ pc' = "call"
    /\ fields' = <<>>
    /\ ranks' = <<>> /\ rank' = 0 /\ pos' = 0 /\ file' = 0 /\ met' = {}
    /\ attrs' = {}
    /\ piece_type_bitboards' = EmptyBitboards(PieceTypes)
    /\ color_bitboards' = EmptyBitboards(Colors)
    /\ side_to_move' = <<>>
    /\ castling_ability' = 0
    /\ en_passant_target_square' = NoBitboard
    /\ halfmove_clock' = 0
    /\ fullmove_counter' = 0
    /\ out' = <<>>
    /\ UNCHANGED <<error, otherVars>>

\* ------------------------------------------------------------- Move.__str__
\* MoveFlag: en_passant, promotion, special_1, special_0 = 8, 4, 2, 1
en_passant == 8
promotion == 4
special_1 == 2
special_0 == 1

\* __str__ with special_0 and special_1 exchanged
move_str_mut(m) ==
    LET text == square_name(m.from_square) \o square_name(m.to_square)
    IN IF HasFlag(m.flag, promotion)
       THEN text \o <<IF HasFlag(m.flag, special_0)
                      THEN (IF HasFlag(m.flag, special_1) THEN "q" ELSE "r")
                      ELSE (IF HasFlag(m.flag, special_1) THEN "b" ELSE "n")>>
       ELSE text
move_str(m) ==
    LET text == square_name(m.from_square) \o square_name(m.to_square)
    IN IF HasFlag(m.flag, promotion)
       THEN text \o <<IF HasFlag(m.flag, special_1)
                      THEN (IF HasFlag(m.flag, special_0) THEN "q" ELSE "r")
                      ELSE (IF HasFlag(m.flag, special_0) THEN "b" ELSE "n")>>
       ELSE text

\* str(move)
MoveStr ==
    /\ pc = "move" /\ uci = <<>>
    /\ uci' = move_str(move)
    /\ UNCHANGED <<fen, round, pc, error, fields, scanVars, attrs, boardVars, out,
                   calls, last, move>>

\* ------------------------------------------------------------------ inputs
Texts(A, n) == UNION {[1 .. k -> A] : k \in 1 .. n}

PlacementChars == {"P", "k", "1", "8", "x", "/"}
CastlingChars == {"K", "Q", "k", "q", "-", "x"}
ClockChars == {"0", "1", "7", "-", "+", "_", "a"}
BlankChars == {" ", "1"}

StartPlacement == <<"r", "n", "b", "q", "k", "b", "n", "r", "/", "p", "p", "p", "p", "p", "p", "p", "p", "/", "8", "/", "8", "/", "8", "/", "8", "/", "P", "P", "P", "P", "P", "P", "P", "P", "/", "R", "N", "B", "Q", "K", "B", "N", "R">>
EmptyPlacement == <<"8", "/", "8", "/", "8", "/", "8", "/", "8", "/", "8", "/", "8", "/", "8">>
KingsPlacement == <<"4", "k", "3", "/", "8", "/", "8", "/", "8", "/", "8", "/", "8", "/", "8", "/", "4", "K", "3">>
\* the default argument of Board.__init__
StartFen == StartPlacement \o <<" ", "w", " ", "K", "Q", "k", "q", " ", "-", " ", "0", " ", "1">>
EmptyFen == EmptyPlacement \o <<" ", "w", " ", "-", " ", "-", " ", "0", " ", "1">>

ExtraPlacements ==
    {StartPlacement, EmptyPlacement, KingsPlacement,
     <<"8", "8", "8", "8", "8", "8", "8", "8", "P">>,
     <<"8", "/", "8", "/", "8", "/", "8", "/", "8", "/", "8", "/", "8", "/", "8", "/", "P">>,
     <<"r", "3", "k", "2", "r", "/", "8", "/", "8", "/", "8", "/", "8", "/", "8", "/", "8", "/", "R", "3", "K", "2", "R">>,
     <<"7", "P", "k", "/", "P", "7", "/", "8", "k">>}

SideInputs == {<<"w">>, <<"b">>, <<"x">>, <<"W">>, <<"w", "b">>, Txt_mro, Txt_doc}
CastlingSmall == {<<"K", "Q", "k", "q">>, <<"-">>, <<"x">>}
EnPassantInputs ==
    {<<"-">>, <<"e", "3">>, <<"a", "8">>, <<"h", "1">>, <<"e", "9">>, <<"E", "3">>,
     <<"e">>, Txt_mro, Txt_doc}
ClockSmall == {<<"0">>, <<"1", "2">>, <<"a">>}

FenInputs ==
    {pl \o <<" ", "w", " ", "-", " ", "-", " ", "0", " ", "1">> :
        pl \in Texts(PlacementChars, MaxPlacementLen) \cup ExtraPlacements}
    \cup {StrJoin(<<pl, s, c, e, h, f>>, " ") :
            pl \in {EmptyPlacement, <<"8", "x">>}, s \in SideInputs,
            c \in CastlingSmall, e \in EnPassantInputs,
            h \in ClockSmall, f \in ClockSmall}
    \cup {StrJoin(<<KingsPlacement, <<"w">>, c, <<"-">>, <<"0">>, <<"1">>>>, " ") :
            c \in Texts(CastlingChars, MaxCastlingLen)}
    \cup {StrJoin(<<KingsPlacement, <<"b">>, <<"-">>, <<"e", "3">>, h, f>>, " ") :
            h \in Texts(ClockChars, MaxClockLen), f \in ClockSmall}
    \cup {StrJoin(<<KingsPlacement, <<"b">>, <<"-">>, <<"e", "3">>, h, f>>, " ") :
            h \in ClockSmall, f \in Texts(ClockChars, MaxClockLen)}
    \cup Texts(BlankChars, MaxTextLen)
    \cup {<<>>, StartFen}

\* --------------------------------------------------------- specifications
Blank ==
    /\ round = 1
    /\ error = "none"
    /\ fields = <<>>
    /\ ranks = <<>> /\ rank = 0 /\ pos = 0 /\ file = 0 /\ met = {}
    /\ out = <<>>
    /\ calls = 0 /\ last = NoCall
    /\ uci = <<>>

\* Board(fen) is called on a text
Init ==
    /\ fen \in FenInputs
    /\ pc = "call"
    /\ attrs = {}
    /\ piece_type_bitboards = EmptyBitboards(PieceTypes)
    /\ color_bitboards = EmptyBitboards(Colors)
    /\ side_to_move = <<>>
    /\ castling_ability = 0
    /\ en_passant_target_square = NoBitboard
    /\ halfmove_clock = 0
    /\ fullmove_counter = 0
    /\ move = NoMove
    /\ Blank

Next ==
    \/ SplitFails \/ SplitFields \/ InitBitboards
    \/ NextRank \/ PlacementDone \/ RankDone
    \/ ScanDigit \/ ScanPiece \/ ScanUnknownPiece \/ ScanBadSquare
    \/ ParseSide \/ ParseSideFails
    \/ ParseCastling \/ ParseCastlingFails
    \/ ParseEnPassant \/ ParseEnPassantFails
    \/ ParseHalfmove \/ ParseHalfmoveFails
    \/ ParseFullmove \/ ParseFullmoveFails
    \/ ToFen \/ ToFenFails \/ Reparse

Spec == Init /\ [][Next]_vars

\* Board.place called on a constructed Board
PlaceSquares == {(i * 20) % NumSquares : i \in 0 .. (NumPlaceSquares - 1)}

Occupied(cb, ptb, square) == \E p \in Pieces : square \in piece_bitboard(cb, ptb, p)

PlaceCall ==
    /\ pc = "done" /\ error = "none"
    /\ calls < MaxPlaceCalls
    /\ \E piece \in Pieces, square \in PlaceSquares :
          /\ piece_type_bitboards' = place_type(piece_type_bitboards, piece, square)
          /\ color_bitboards' = place_color(color_bitboards, piece, square)
          /\ last' = [piece |-> piece, square |-> square,
                      vacant |-> ~Occupied(color_bitboards, piece_type_bitboards, square)]
    /\ calls' = calls + 1
    /\ UNCHANGED <<fen, round, pc, error, fields, scanVars, attrs, side_to_move,
                   castling_ability, en_passant_target_square, halfmove_clock,
                   fullmove_counter, out, move, uci>>

\* the Board that Board(StartFen) returns
StartTypes ==
    [t \in PieceTypes |->
        CASE t = 0 -> (8 .. 15) \cup (48 .. 55)
          [] t = 1 -> {1, 6, 57, 62}
          [] t = 2 -> {2, 5, 58, 61}
          [] t = 3 -> {0, 7, 56, 63}
          [] t = 4 -> {3, 59}
          [] t = 5 -> {4, 60}]
StartColors == [c \in Colors |-> IF c = 0 THEN 48 .. 63 ELSE 0 .. 15]

\* place is called on the Board of Board(EmptyFen) or of Board(StartFen)
InitPlace ==
    /\ \/ /\ fen = EmptyFen
          /\ piece_type_bitboards = EmptyBitboards(PieceTypes)
          /\ color_bitboards = EmptyBitboards(Colors)
          /\ castling_ability = 0
       \/ /\ fen = StartFen
          /\ piece_type_bitboards = StartTypes
          /\ color_bitboards = StartColors
          /\ castling_ability = 15
    /\ pc = "done"
    /\ attrs = {"piece_type_bitboards", "color_bitboards", "side_to_move",
                "castling_ability", "en_passant_target_square", "halfmove_clock",
                "fullmove_counter"}
    /\ side_to_move = <<"w">>
    /\ en_passant_target_square = NoBitboard
    /\ halfmove_clock = 0
    /\ fullmove_counter = 1
    /\ move = NoMove
    /\ Blank

NextPlace == PlaceCall

SpecPlace == InitPlace /\ [][NextPlace]_vars

\* Move(from_square, to_square, flag) for every square pair and flag value
InitMove ==
    /\ move \in [from_square : Squares, to_square : Squares, flag : 0 .. 15]
    /\ pc = "move"
    /\ fen = <<>>
    /\ attrs = {}
    /\ piece_type_bitboards = EmptyBitboards(PieceTypes)
    /\ color_bitboards = EmptyBitboards(Colors)
    /\ side_to_move = <<>>
    /\ castling_ability = 0
    /\ en_passant_target_square = NoBitboard
    /\ halfmove_clock = 0
    /\ fullmove_counter = 0
    /\ Blank

NextMove == MoveStr

SpecMove == InitMove /\ [][NextMove]_vars

\* ------------------------------------------------------------------ claims
Returned == pc \in {"done", "serialized"}
PastPlacement ==
    pc \in {"side", "castling", "en_passant", "halfmove", "fullmove", "done", "serialized"}
PieceBitboard(p) == piece_bitboard(color_bitboards, piece_type_bitboards, p)
OccupiedSquares == {sq \in Squares : \E p \in Pieces : sq \in PieceBitboard(p)}
OutFields == StrSplit(out)
InRange == \A m \in met : m[2] <= 7

\* C1: parsing a text that to_fen produced from a parsed Board and serializing
\* the result gives that text again, in all six fields; the second parse never
\* fails.
C1_RoundTrip ==
    round = 2 =>
        /\ error = "none"
        /\ pc = "serialized" => out = fen

C1_Witness ==
    /\ round = 2 /\ pc = "serialized"
    /\ fen = StartFen /\ out = StartFen

\* C2: a text that does not split into exactly 6 fields fails with the
\* Invalid-FEN error (it has been raised, or the call has not run yet and
\* raising it is its next step); the call never gets past the split and no
\* attribute of the Board is ever assigned.
C2_InvalidFen ==
    Len(StrSplit(fen)) # 6 =>
        /\ pc = "call"
        /\ error = "InvalidFEN" \/ (error = "none" /\ ENABLED SplitFails)
        /\ attrs = {}
        /\ \A t \in PieceTypes : piece_type_bitboards[t] = {}
        /\ \A c \in Colors : color_bitboards[c] = {}

C2_Witness ==
    /\ Len(StrSplit(fen)) = 5
    /\ error = "InvalidFEN" /\ attrs = {}

\* C3: after place(piece, square) on a square no piece occupied, the piece's
\* bitboard holds the square and no other piece's bitboard does.
C3_PlaceOnVacant ==
    (calls > 0 /\ last.vacant) =>
        /\ last.square \in PieceBitboard(last.piece)
        /\ \A p2 \in Pieces \ {last.piece} : last.square \notin PieceBitboard(p2)

C3_Witness ==
    /\ calls >= 2 /\ last.vacant
    /\ color_of(last.piece) = 1
    /\ \E sq \in PlaceSquares \ {last.square} :
          sq \in PieceBitboard(piece_from(piece_type_of(last.piece), 0))

SingleOccupancy ==
    \A sq \in Squares : Cardinality({p \in Pieces : sq \in PieceBitboard(p)}) <= 1

\* C4 as stated: in every Board that parse returns, each square is in at most
\* one of the 12 piece bitboards.
C4_Original == Returned => SingleOccupancy

\* C4 amended: in every Board that parse returns from a placement field in
\* which every piece letter was met with the file cursor at most 7, each
\* square is in at most one of the 12 piece bitboards.
C4_Amended == (Returned /\ InRange) => SingleOccupancy

C4_Witness ==
    /\ Returned /\ InRange
    /\ Cardinality(met) >= 2
    /\ \E m1, m2 \in met : color_of(m1[1]) # color_of(m2[1])

CastlingLetters(s) == {s[i] : i \in 1 .. Len(s)}
Canonical(s) ==
    LET present(c) == c \in CastlingLetters(s) IN SelectSeq(CastlingNames, present)

\* C5: a castling field made of letters K, Q, k, q in any order with repeats
\* is serialized as its distinct letters, each once, in the order K, Q, k, q;
\* the field '-' is serialized as '-'.
C5_CastlingNormalised ==
    (pc = "serialized" /\ round = 1) =>
        /\ (\A i \in 1 .. Len(fields[3]) : IsCastlingName(fields[3][i]))
              => OutFields[3] = Canonical(fields[3])
        /\ fields[3] = <<"-">> => OutFields[3] = <<"-">>

C5_Witness ==
    /\ pc = "serialized" /\ round = 1
    /\ fields[3] = <<"q", "K", "q">>
    /\ OutFields[3] = <<"K", "q">>

PromotionLetters == <<"n", "b", "r", "q">>

\* C6: str(move) is the two square names, followed by one promotion letter
\* exactly when the promotion flag is set, chosen by (special_1, special_0):
\* (0,0) n, (0,1) b, (1,0) r, (1,1) q; no other flag changes the text.
C6_MoveText ==
    uci # <<>> =>
        LET f == move.flag
            s0 == f % 2
            s1 == (f \div 2) % 2
            promo == (f \div 4) % 2 = 1
            names == <<FileNames[(move.from_square % 8) + 1],
                       RankNames[(move.from_square \div 8) + 1],
                       FileNames[(move.to_square % 8) + 1],
                       RankNames[(move.to_square \div 8) + 1]>>
        IN /\ uci = names \o (IF promo THEN <<PromotionLetters[2 * s1 + s0 + 1]>> ELSE <<>>)
           /\ Len(uci) = IF promo THEN 5 ELSE 4

C6_Witness ==
    /\ move = [from_square |-> 12, to_square |-> 4, flag |-> 14]
    /\ uci = <<"e", "7", "e", "8", "r">>

RECURSIVE Expand(_)
\* a rank string with each digit d written out as d blanks
Expand(s) ==
    IF s = <<>> THEN <<>>
    ELSE IF IsDigit(Head(s))
         THEN [i \in 1 .. DigitValue(Head(s)) |-> " "] \o Expand(Tail(s))
         ELSE <<Head(s)>> \o Expand(Tail(s))

\* C7: each of the 8 rank strings to_fen emits is that rank's cells from file a
\* to file h with every maximal run of k blanks written as the digit k: no two
\* digits are adjacent, no digit is 0 or 9, digits and letters add up to 8
\* cells, and an empty rank is '8'.
C7_RunLength ==
    pc = "serialized" =>
        LET rs == StrSplitOn(OutFields[1], "/")
            board == str_board(color_bitboards, piece_type_bitboards)
        IN /\ Len(rs) = 8
           /\ \A r \in 1 .. 8 :
                 /\ Expand(rs[r]) = rank_slice(board, r - 1)
                 /\ Len(Expand(rs[r])) = 8
                 /\ \A i \in 1 .. Len(rs[r]) :
                       IsDigit(rs[r][i]) =>
                          /\ rs[r][i] \notin {"0", "9"}
                          /\ i < Len(rs[r]) => ~IsDigit(rs[r][i + 1])
                 /\ (\A i \in 1 .. 8 : rank_slice(board, r - 1)[i] = " ")
                       => rs[r] = <<"8">>

C7_Witness ==
    /\ pc = "serialized" /\ round = 1
    /\ StrSplitOn(OutFields[1], "/")[1] = <<"r", "3", "k", "2", "r">>
    /\ StrSplitOn(OutFields[1], "/")[2] = <<"8">>

\* C8 as stated: every piece letter met at file cursor c in rank string r is
\* placed on square r*8 + c, for every cursor value the scan reaches.
C8_Original ==
    \A m \in met : (m[3] * 8 + m[2]) \in PieceBitboard(m[1])

FieldMalformed(k) ==
    CASE k = 1 -> \E i \in 1 .. Len(fields[1]) :
                     /\ ~IsDigit(fields[1][i])
                     /\ fields[1][i] # "/"
                     /\ ~IsPieceName(fields[1][i])
      [] k = 2 -> ~IsColorName(fields[2])
      [] k = 3 -> /\ fields[3] # <<"-">>
                  /\ \E i \in 1 .. Len(fields[3]) : ~IsCastlingName(fields[3][i])
      [] k = 4 -> fields[4] # <<"-">> /\ ~IsSquareName(fields[4])
      [] k = 5 -> ~IntValid(fields[5])
      [] k = 6 -> ~IntValid(fields[6])
FieldStep == <<"char", "side", "castling", "en_passant", "halfmove", "fullmove">>

\* C9 as stated: with 6 fields of which one is malformed, parse fails at the
\* first malformed field in the order placement, side, castling, en-passant,
\* halfmove, fullmove, and the caller never obtains a Board.
C9_Original ==
    (fields # <<>> /\ \E k \in 1 .. 6 : FieldMalformed(k)) =>
        LET first == CHOOSE k \in 1 .. 6 :
                        FieldMalformed(k) /\ \A j \in 1 .. (k - 1) : ~FieldMalformed(j)
        IN /\ ~Returned
           /\ error # "none" => pc = FieldStep[first]

PieceLetters(s) == Len(SelectSeq(s, IsPieceName))

\* C10: when the placement field has at most 8 rank strings and every piece
\* letter is met with the file cursor at most 7, each piece's bitboard is
\* exactly the set of squares rank*8 + file at which its letter was met, and
\* the number of occupied squares is the number of piece letters in the field.
C10_ExactPlacement ==
    (PastPlacement /\ Len(ranks) <= 8 /\ InRange) =>
        /\ \A p \in Pieces :
              PieceBitboard(p) = {m[3] * 8 + m[2] : m \in {x \in met : x[1] = p}}
        /\ Cardinality(OccupiedSquares) = PieceLetters(fields[1])

C10_Witness ==
    /\ pc = "done" /\ round = 1
    /\ fen = StartFen
    /\ Cardinality(OccupiedSquares) = 32

====
